---- MODULE Spec2Model ----
(***************************************************************************)
(* Model of enhanced_art_to_anki.py: the filename parser parse_filename,   *)
(* the deck loop generate_anki_deck and the top-level main.                *)
(*                                                                         *)
(* Strings are sequences of tokens.  A token is one special character      *)
(* ("-", "_", " ", tab, ".") or a maximal run of letters (a word).  Every   *)
(* string operation the code uses (splitext, the two re.sub calls, split,  *)
(* join, replace, strip, the whitespace collapse, lower) looks only at the *)
(* special characters, at whole words, or at the one-letter word "S", so   *)
(* it is computed here on tokens exactly as the code computes it on        *)
(* characters.  Two strings are equal iff their token sequences are,       *)
(* because no input holds two adjacent word tokens.                        *)
(***************************************************************************)
EXTENDS Integers, Sequences, FiniteSets, TLC

VARIABLES
    filename,       \* parse_filename's argument (Spec)
    called,         \* whether parse_filename has returned for it
    result,         \* what it returned
    pc,             \* position of the program run (SpecDeck)
    genanki_installed, folder_exists, disk_ok,   \* the run's environment
    listing,        \* what os.listdir(art_folder) yields
    image_files,    \* generate_anki_deck's image_files
    media_files,    \* generate_anki_deck's media_files (names, without the folder)
    idx,            \* number of completed iterations of the loop at line 164
    parsed_count, failed_count,
    deck,           \* the notes added to the deck, in order
    processed,      \* history: the filenames the loop body has run for, in order
    output_written, \* package.write_to_file has completed
    error_reported  \* the except block of main has printed its message

vars == <<filename, called, result, pc, genanki_installed, folder_exists, disk_ok,
          listing, image_files, media_files, idx, parsed_count, failed_count,
          deck, processed, output_written, error_reported>>

parseVars == <<filename, called, result>>
deckVars == <<pc, genanki_installed, folder_exists, disk_ok, listing, image_files,
              media_files, idx, parsed_count, failed_count, deck, processed,
              output_written, error_reported>>

-----------------------------------------------------------------------------
(* Bounds of the model. *)

\* longest free token sequence appended to a filename prefix
MaxTail == 3
\* largest number of entries in the listed folder
MaxFiles == 3

-----------------------------------------------------------------------------
(* Characters and words. *)

Whitespace == {" ", "\t"}
Specials == {"-", "_", ".", " ", "\t"}

\* str.lower() on one token
LowerToken(t) ==
    CASE t = "The" -> "the"
      [] t = "S" -> "s"
      [] t = "Monet" -> "monet"
      [] t = "Claude" -> "claude"
      [] t = "Water" -> "water"
      [] t = "Lilies" -> "lilies"
      [] t = "Albert" -> "albert"
      [] t = "Charles" -> "charles"
      [] t = "Marie" -> "marie"
      [] t = "Lebourg" -> "lebourg"
      [] t = "Diego" -> "diego"
      [] t = "Rodriguez" -> "rodriguez"
      [] t = "De" -> "de"
      [] t = "Silva" -> "silva"
      [] t = "Y" -> "y"
      [] t = "Velazquez" -> "velazquez"
      [] t = "Michelangelo" -> "michelangelo"
      [] t = "Merisi" -> "merisi"
      [] t = "Caravaggio" -> "caravaggio"
      [] t = "JPG" -> "jpg"
      [] t = "Notes" -> "notes"
      [] OTHER -> t

\* str.lower()
Lower(s) == [i \in 1..Len(s) |-> LowerToken(s[i])]

Take(s, n) == SubSeq(s, 1, IF n < Len(s) THEN n ELSE Len(s))
Drop(s, n) == SubSeq(s, n + 1, Len(s))

\* s.endswith(suffix)
EndsWith(s, suffix) ==
    /\ Len(suffix) <= Len(s)
    /\ SubSeq(s, Len(s) - Len(suffix) + 1, Len(s)) = suffix

\* os.path.splitext(filename)[0] for a name without a directory separator:
\* cut at the last dot, unless only dots precede it
Splitext(s) ==
    LET dots == {i \in 1..Len(s) : s[i] = "."}
    IN  IF dots = {} THEN s
        ELSE LET dotIndex == CHOOSE i \in dots : \A j \in dots : j <= i
             IN  IF \E k \in 1..(dotIndex - 1) : s[k] # "."
                 THEN SubSeq(s, 1, dotIndex - 1)
                 ELSE s

\* re.sub(pattern + '$', '', name) for a literal pattern
StripSuffix(s, suffix) ==
    IF EndsWith(s, suffix) THEN SubSeq(s, 1, Len(s) - Len(suffix)) ELSE s

\* lines 20-24
Stem(f) == StripSuffix(StripSuffix(Splitext(f), <<"-", "-", "S">>), <<"-", "S">>)

RECURSIVE SplitFrom(_, _, _, _)
SplitFrom(s, sep, i, cur) ==
    IF i > Len(s) THEN <<cur>>
    ELSE IF s[i] = sep THEN <<cur>> \o SplitFrom(s, sep, i + 1, <<>>)
    ELSE SplitFrom(s, sep, i + 1, Append(cur, s[i]))

\* str.split(sep)
Split(s, sep) == SplitFrom(s, sep, 1, <<>>)

RECURSIVE Join(_, _)
\* sep.join(list)
Join(list, sep) ==
    IF list = <<>> THEN <<>>
    ELSE IF Len(list) = 1 THEN list[1]
    ELSE list[1] \o <<sep>> \o Join(Tail(list), sep)

\* s.replace('_', ' ')
ReplaceUnderscore(s) == [i \in 1..Len(s) |-> IF s[i] = "_" THEN " " ELSE s[i]]

RECURSIVE LStrip(_)
LStrip(s) == IF s # <<>> /\ s[1] \in Whitespace THEN LStrip(Tail(s)) ELSE s

RECURSIVE RStrip(_)
RStrip(s) ==
    IF s # <<>> /\ s[Len(s)] \in Whitespace THEN RStrip(SubSeq(s, 1, Len(s) - 1)) ELSE s

\* str.strip()
Strip(s) == RStrip(LStrip(s))

RECURSIVE CollapseFrom(_, _)
CollapseFrom(s, i) ==
    IF i > Len(s) THEN <<>>
    ELSE IF s[i] \in Whitespace
         THEN IF i > 1 /\ s[i - 1] \in Whitespace
              THEN CollapseFrom(s, i + 1)
              ELSE <<" ">> \o CollapseFrom(s, i + 1)
         ELSE <<s[i]>> \o CollapseFrom(s, i + 1)

\* re.sub(r'\s+', ' ', s)
CollapseWhitespace(s) == CollapseFrom(s, 1)

\* lines 61-66, 82-87, 92-97: join, replace, strip, collapse
Normalize(segments) == CollapseWhitespace(Strip(ReplaceUnderscore(Join(segments, " "))))

-----------------------------------------------------------------------------
(* parse_filename *)

\* lines 35-42
artwork_indicators ==
    {"the", "a", "an", "portrait", "self", "untitled", "study", "landscape",
     "still", "life", "scene", "view", "garden", "bridge", "river", "mountain",
     "woman", "man", "child", "family", "christ", "madonna", "saint", "angel",
     "battle", "war", "peace", "death", "birth", "creation", "fall", "rise",
     "morning", "evening", "night", "day", "sunset", "sunrise", "winter", "summer",
     "spring", "autumn", "snow", "rain", "storm", "calm", "wild"}

\* lines 45-52, in the dict's iteration order
compound_artists ==
    << [name |-> <<"Albert", "-", "Charles", "-", "Lebourg">>, length |-> 3],
       [name |-> <<"Albert", "-", "Marie", "-", "Lebourg">>, length |-> 3],
       [name |-> <<"Diego", "-", "Rodriguez", "-", "De", "-", "Silva", "-", "Y", "-",
                   "Velazquez">>, length |-> 5],
       [name |-> <<"Diego", "-", "Velazquez">>, length |-> 2],
       [name |-> <<"Michelangelo", "-", "Merisi">>, length |-> 2],
       [name |-> <<"Caravaggio", "-", "Michelangelo", "-", "Merisi">>, length |-> 3] >>

\* lines 27-29, with underscores tried whenever the name holds one
PartsUnderscoreFirst(name) ==
    IF Len(Split(name, "_")) >= 2 THEN Split(name, "_") ELSE Split(name, "-")

\* lines 27-29
Parts(name) ==
    IF Len(Split(name, "-")) < 2 THEN Split(name, "_") ELSE Split(name, "-")

\* lines 55-60: the entries whose prefix test and artwork test both pass
CompoundHits(parts) ==
    {i \in 1..Len(compound_artists) :
        /\ Join(Take(parts, compound_artists[i].length), "-") = compound_artists[i].name
        /\ Drop(parts, compound_artists[i].length) # <<>>}

\* lines 71-80 without the "artist_length == 2" disjunct
TrialAcceptsNoDefault(parts, artist_length) ==
    /\ artist_length <= Len(parts)
    /\ Drop(parts, artist_length) # <<>>
    /\ \/ \E w \in artwork_indicators : Lower(Drop(parts, artist_length)[1]) = <<w>>
       \/ Len(Drop(parts, artist_length)) > 1

\* lines 71-80 without the "if artwork_parts" test of line 75
TrialAcceptsNoArtworkCheck(parts, artist_length) ==
    /\ artist_length <= Len(parts)
    /\ \/ artist_length = 2
       \/ Len(Drop(parts, artist_length)) > 1
       \/ /\ Drop(parts, artist_length) # <<>>
          /\ \E w \in artwork_indicators : Lower(Drop(parts, artist_length)[1]) = <<w>>

\* lines 71-80: whether the trial with this artist length returns
TrialAccepts(parts, artist_length) ==
    /\ artist_length <= Len(parts)
    /\ Drop(parts, artist_length) # <<>>
    /\ \/ \E w \in artwork_indicators : Lower(Drop(parts, artist_length)[1]) = <<w>>
       \/ Len(Drop(parts, artist_length)) > 1
       \/ artist_length = 2

\* line 70 with the lengths tried in ascending order
TrialLengthsAscending == <<1, 2, 3>>

\* line 70
trial_lengths == <<2, 3, 1>>

Absent(via) == [present |-> FALSE, artist |-> <<>>, artwork |-> <<>>, via |-> via]

\* lines 61-67, 82-88, 92-98, with the strip() calls left out
SplitAtNoStrip(parts, n, via) ==
    [present |-> TRUE,
     artist |-> CollapseWhitespace(ReplaceUnderscore(Join(Take(parts, n), " "))),
     artwork |-> CollapseWhitespace(ReplaceUnderscore(Join(Drop(parts, n), " "))),
     via |-> via]

\* lines 61-67, 82-88, 92-98: the pair returned for an artist of n segments
SplitAt(parts, n, via) ==
    [present |-> TRUE,
     artist |-> Normalize(Take(parts, n)),
     artwork |-> Normalize(Drop(parts, n)),
     via |-> via]

\* lines 14-100.  present = FALSE stands for (None, None); via names the
\* return statement taken.
parse_filename(f) ==
    LET parts == Parts(Stem(f))
        hits == CompoundHits(parts)
        tried == {k \in 1..Len(trial_lengths) : TrialAccepts(parts, trial_lengths[k])}
    IN  IF Len(parts) < 2 THEN Absent("too_few")
        ELSE IF hits # {}
        THEN LET i == CHOOSE h \in hits : \A g \in hits : h <= g
             IN  SplitAt(parts, compound_artists[i].length, "compound")
        ELSE IF tried # {}
        THEN LET k == CHOOSE h \in tried : \A g \in tried : h <= g
             IN  SplitAt(parts, trial_lengths[k],
                         CASE trial_lengths[k] = 2 -> "trial2"
                           [] trial_lengths[k] = 3 -> "trial3"
                           [] OTHER -> "trial1")
        ELSE IF Len(parts) >= 3 THEN SplitAt(parts, 2, "fallback")
        ELSE Absent("no_match")

-----------------------------------------------------------------------------
(* Inputs of parse_filename. *)

IsWord(t) == t \notin Specials

\* no two adjacent word tokens: the tokenization of a string is unique
Canonical(s) == \A i \in 1..(Len(s) - 1) : ~(IsWord(s[i]) /\ IsWord(s[i + 1]))

TailAlphabet == {"-", "_", " ", "\t", ".", "The", "Monet", "S"}

RECURSIVE SeqsUpTo(_, _)
SeqsUpTo(S, n) ==
    IF n = 0 THEN {<<>>}
    ELSE LET shorter == SeqsUpTo(S, n - 1)
         IN  shorter \cup {Append(s, x) : s \in {t \in shorter : Len(t) = n - 1}, x \in S}

Prefixes ==
    {<<>>, <<"Claude", "-", "Monet", "-", "Water">>, <<"Monet", "-", "The">>,
     <<"Diego", "_", "Velazquez">>}
    \cup {compound_artists[i].name : i \in 1..Len(compound_artists)}

Endings ==
    {<<>>, <<".", "JPG">>, <<"-", "S", ".", "JPG">>, <<"-", "-", "S", ".", "JPG">>}

Filenames ==
    {f \in {p \o t \o e : p \in Prefixes, t \in SeqsUpTo(TailAlphabet, MaxTail),
                          e \in Endings} : Canonical(f)}

-----------------------------------------------------------------------------
(* Spec: parse_filename applied to every input. *)

IdleDeck ==
    /\ pc = "idle"
    /\ genanki_installed = TRUE /\ folder_exists = TRUE /\ disk_ok = TRUE
    /\ listing = <<>> /\ image_files = <<>> /\ media_files = <<>>
    /\ idx = 0 /\ parsed_count = 0 /\ failed_count = 0
    /\ deck = <<>> /\ processed = <<>>
    /\ output_written = FALSE /\ error_reported = FALSE

Init ==
    /\ filename \in Filenames
    /\ called = FALSE
    /\ result = Absent("not_called")
    /\ IdleDeck

CallParse ==
    /\ pc = "idle"
    /\ ~called
    /\ called' = TRUE
    /\ result' = parse_filename(filename)
    /\ UNCHANGED <<filename>>
    /\ UNCHANGED deckVars

Next == CallParse

Spec == Init /\ [][Next]_vars

-----------------------------------------------------------------------------
(* generate_anki_deck and main *)

\* line 149
image_extensions ==
    {<<".", "jpg">>, <<".", "jpeg">>, <<".", "png">>, <<".", "gif">>, <<".", "bmp">>}

\* line 154
IsImage(file) == \E ext \in image_extensions : EndsWith(Lower(file), ext)

\* line 167: "if artist and artwork" (None and '' are both falsy)
Truthy(r) == r.present /\ r.artist # <<>> /\ r.artwork # <<>>

\* lines 169-177
Note(file, r) == [image |-> file, artist |-> r.artist, artwork |-> r.artwork]

\* folder entries the runs are checked on
SampleFiles ==
    { <<"Claude", "-", "Monet", "-", "Water", ".", "jpg">>,
      <<"Monet", "-", "The", ".", "JPG">>,
      <<"Monet", "-", "Water", ".", "png">>,
      <<"Claude", "-", "Monet", "-", ".", "jpg">>,
      <<"Monet", ".", "jpg">>,
      <<".", "jpg">>,
      <<"Notes", ".", "txt">> }

Injective(s) == \A i, j \in 1..Len(s) : s[i] = s[j] => i = j

\* os.listdir yields each entry of the folder once, in any order
Listings == {s \in SeqsUpTo(SampleFiles, MaxFiles) : Injective(s)}

InitDeck ==
    /\ filename = <<>> /\ called = FALSE /\ result = Absent("not_called")
    /\ pc = "import"
    /\ genanki_installed \in BOOLEAN
    /\ folder_exists \in BOOLEAN
    /\ disk_ok \in BOOLEAN
    /\ listing \in Listings
    /\ image_files = <<>> /\ media_files = <<>>
    /\ idx = 0 /\ parsed_count = 0 /\ failed_count = 0
    /\ deck = <<>> /\ processed = <<>>
    /\ output_written = FALSE /\ error_reported = FALSE

\* lines 8-12 and 224-225: the imports run before main is called; a failed
\* import raises outside any try block
ImportModules ==
    /\ pc = "import"
    /\ pc' = IF genanki_installed THEN "main" ELSE "uncaught"
    /\ UNCHANGED <<genanki_installed, folder_exists, disk_ok, listing, image_files,
                   media_files, idx, parsed_count, failed_count, deck, processed,
                   output_written, error_reported>>
    /\ UNCHANGED parseVars

\* lines 200-207 and 142-146: main enters the try block and generate_anki_deck
\* creates the model and the empty deck
CreateDeck ==
    /\ pc = "main"
    /\ pc' = "listdir"
    /\ deck' = <<>>
    /\ UNCHANGED <<genanki_installed, folder_exists, disk_ok, listing, image_files,
                   media_files, idx, parsed_count, failed_count, processed,
                   output_written, error_reported>>
    /\ UNCHANGED parseVars

\* lines 149-162: os.listdir raises when the folder cannot be listed
ListFolder ==
    /\ pc = "listdir"
    /\ IF folder_exists
       THEN /\ image_files' = SelectSeq(listing, IsImage)
            /\ media_files' = SelectSeq(listing, IsImage)
            /\ parsed_count' = 0
            /\ failed_count' = 0
            /\ pc' = "loop"
       ELSE /\ pc' = "except"
            /\ UNCHANGED <<image_files, media_files, parsed_count, failed_count>>
    /\ UNCHANGED <<genanki_installed, folder_exists, disk_ok, listing, idx, deck,
                   processed, output_written, error_reported>>
    /\ UNCHANGED parseVars

\* lines 164-183 with a break after a failed parse
ProcessFileStopOnFailure ==
    /\ pc = "loop"
    /\ idx < Len(image_files)
    /\ LET file == image_files[idx + 1]
           r == parse_filename(file)
       IN  /\ processed' = Append(processed, file)
           /\ IF Truthy(r)
              THEN /\ deck' = Append(deck, Note(file, r))
                   /\ parsed_count' = parsed_count + 1
                   /\ idx' = idx + 1
                   /\ UNCHANGED failed_count
              ELSE /\ failed_count' = failed_count + 1
                   /\ idx' = Len(image_files)
                   /\ UNCHANGED <<deck, parsed_count>>
    /\ UNCHANGED <<pc, genanki_installed, folder_exists, disk_ok, listing, image_files,
                   media_files, output_written, error_reported>>
    /\ UNCHANGED parseVars

\* lines 164-183 with "is not None" tests in place of truthiness at line 167
ProcessFileNotNone ==
    /\ pc = "loop"
    /\ idx < Len(image_files)
    /\ LET file == image_files[idx + 1]
           r == parse_filename(file)
       IN  /\ processed' = Append(processed, file)
           /\ idx' = idx + 1
           /\ IF r.present
              THEN /\ deck' = Append(deck, Note(file, r))
                   /\ parsed_count' = parsed_count + 1
                   /\ UNCHANGED failed_count
              ELSE /\ failed_count' = failed_count + 1
                   /\ UNCHANGED <<deck, parsed_count>>
    /\ UNCHANGED <<pc, genanki_installed, folder_exists, disk_ok, listing, image_files,
                   media_files, output_written, error_reported>>
    /\ UNCHANGED parseVars

\* lines 164-183: one iteration of the loop over image_files
ProcessFile ==
    /\ pc = "loop"
    /\ idx < Len(image_files)
    /\ LET file == image_files[idx + 1]
           r == parse_filename(file)
       IN  /\ processed' = Append(processed, file)
           /\ idx' = idx + 1
           /\ IF Truthy(r)
              THEN /\ deck' = Append(deck, Note(file, r))
                   /\ parsed_count' = parsed_count + 1
                   /\ UNCHANGED failed_count
              ELSE /\ failed_count' = failed_count + 1
                   /\ UNCHANGED <<deck, parsed_count>>
    /\ UNCHANGED <<pc, genanki_installed, folder_exists, disk_ok, listing, image_files,
                   media_files, output_written, error_reported>>
    /\ UNCHANGED parseVars

\* lines 185-194: after the loop, the package is written; write_to_file raises
\* on an I/O failure
WritePackage ==
    /\ pc = "loop"
    /\ idx = Len(image_files)
    /\ IF disk_ok
       THEN output_written' = TRUE /\ pc' = "return"
       ELSE pc' = "except" /\ UNCHANGED output_written
    /\ UNCHANGED <<genanki_installed, folder_exists, disk_ok, listing, image_files,
                   media_files, idx, parsed_count, failed_count, deck, processed,
                   error_reported>>
    /\ UNCHANGED parseVars

\* lines 196 and 207-218: the counts are returned and the summary printed
ReportSuccess ==
    /\ pc = "return"
    /\ pc' = "done"
    /\ UNCHANGED <<genanki_installed, folder_exists, disk_ok, listing, image_files,
                   media_files, idx, parsed_count, failed_count, deck, processed,
                   output_written, error_reported>>
    /\ UNCHANGED parseVars

\* lines 220-222: the except block of main
HandleError ==
    /\ pc = "except"
    /\ error_reported' = TRUE
    /\ pc' = "done"
    /\ UNCHANGED <<genanki_installed, folder_exists, disk_ok, listing, image_files,
                   media_files, idx, parsed_count, failed_count, deck, processed,
                   output_written>>
    /\ UNCHANGED parseVars

NextDeck ==
    \/ ImportModules
    \/ CreateDeck
    \/ ListFolder
    \/ ProcessFile
    \/ WritePackage
    \/ ReportSuccess
    \/ HandleError

SpecDeck == InitDeck /\ [][NextDeck]_vars

-----------------------------------------------------------------------------
(* Properties of parse_filename, checked under Spec. *)

\* the segments parse_filename works on for the current input
parts_of_input == Parts(Stem(filename))

Tokens(s) == {s[i] : i \in 1..Len(s)}

\* a segment that normalizes to the empty string
Blank(seg) == Tokens(seg) \subseteq (Whitespace \cup {"_"})

IsIndicator(seg) == \E w \in artwork_indicators : Lower(seg) = <<w>>

\* the number of segments a compound name is written with
SegmentsOf(name) == Split(name, "-")

\* C1: when the leading segments of the stem spell one of the six compound
\* names and a non-blank segment follows, the returned artist is that
\* name with its separators replaced by single spaces.
C1_CompoundArtist ==
    called =>
        \A i \in 1..Len(compound_artists) :
            LET segs == SegmentsOf(compound_artists[i].name)
            IN  (/\ Len(parts_of_input) > Len(segs)
                 /\ Take(parts_of_input, Len(segs)) = segs
                 /\ ~Blank(parts_of_input[Len(segs) + 1]))
                => /\ result.present
                   /\ result.artist = Join(segs, " ")

\* C2: a stem of exactly two segments, each holding a word, is returned as
\* the pair (first segment, second segment), whatever the second segment is.
C2_TwoSegments ==
    (/\ called
     /\ Len(parts_of_input) = 2
     /\ \E t \in Tokens(parts_of_input[1]) : IsWord(t)
     /\ \E t \in Tokens(parts_of_input[2]) : IsWord(t))
    => /\ result.present
       /\ result.artist = Normalize(<<parts_of_input[1]>>)
       /\ result.artwork = Normalize(<<parts_of_input[2]>>)

\* C3: a stem with neither a hyphen nor an underscore yields (None, None), and
\* a stem with a hyphen is split on hyphens only, so that no hyphen survives
\* in a returned string.
C3_TooFewSegments ==
    called =>
        /\ (Len(Split(Stem(filename), "-")) < 2 /\ Len(Split(Stem(filename), "_")) < 2)
           => ~result.present
        /\ (Len(Split(Stem(filename), "-")) >= 2 /\ result.present)
           => "-" \notin (Tokens(result.artist) \cup Tokens(result.artwork))

C3_Witness ==
    /\ called
    /\ Stem(filename) # <<>>
    /\ Len(Split(Stem(filename), "-")) < 2
    /\ Len(Split(Stem(filename), "_")) < 2
    /\ ~result.present

NormalForm(s) ==
    /\ "_" \notin Tokens(s)
    /\ s # <<>> => (s[1] \notin Whitespace /\ s[Len(s)] \notin Whitespace)
    /\ \A i \in 1..(Len(s) - 1) : ~(s[i] \in Whitespace /\ s[i + 1] \in Whitespace)

\* C7: a returned artist and artwork hold no underscore, no leading or
\* trailing whitespace and no two consecutive whitespace characters.
C7_Normalized ==
    (called /\ result.present) => (NormalForm(result.artist) /\ NormalForm(result.artwork))

\* an input whose artwork segments hold underscores and whitespace at the
\* edges and doubled inside, returned with a single space left inside
C7_Witness ==
    /\ called
    /\ result.present
    /\ \E i \in 1..(Len(filename) - 1) :
          filename[i] \in (Whitespace \cup {"_"}) /\ filename[i + 1] \in (Whitespace \cup {"_"})
    /\ "_" \in Tokens(filename)
    /\ "\t" \in Tokens(filename)
    /\ " " \in Tokens(result.artwork)

\* C8: with at least three segments and no compound-artist match, the first
\* two segments joined by a space are the artist and the rest joined by
\* spaces the artwork (each then normalized), indicator words or not.
C8_DefaultTwoSegmentArtist ==
    (/\ called
     /\ Len(parts_of_input) >= 3
     /\ CompoundHits(parts_of_input) = {})
    => /\ result.present
       /\ result.artist = CollapseWhitespace(Strip(ReplaceUnderscore(
              parts_of_input[1] \o <<" ">> \o parts_of_input[2])))
       /\ result.artwork = CollapseWhitespace(Strip(ReplaceUnderscore(
              Join(SubSeq(parts_of_input, 3, Len(parts_of_input)), " "))))

\* three or more segments, no compound match, and an indicator word among the
\* segments after the first
C8_Witness ==
    /\ called
    /\ Len(parts_of_input) >= 3
    /\ CompoundHits(parts_of_input) = {}
    /\ IsIndicator(parts_of_input[2])
    /\ result.present
    /\ result.artwork # <<>>

\* C9 as stated: the result is (None, None) or a pair of two non-empty strings.
C9_NeverEmpty ==
    called => (~result.present \/ (result.artist # <<>> /\ result.artwork # <<>>))

\* C9 amended: the result is (None, None) or a pair of strings, and both are
\* non-empty unless some segment of the stem is blank (empty, or made only
\* of whitespace and underscores).
C9_EmptyOnlyFromBlankSegment ==
    (called /\ result.present /\ (result.artist = <<>> \/ result.artwork = <<>>))
    => \E i \in 1..Len(parts_of_input) : Blank(parts_of_input[i])

\* a trailing separator: the artwork comes back as the empty string
C9_Witness ==
    /\ called
    /\ result.present
    /\ result.artist # <<>>
    /\ result.artwork = <<>>

\* C10: trial length 3 and the fallback never return; with three or more
\* segments the compound match or trial length 2 returns; trial length 1 is
\* reached only with exactly two segments.
C10_DeadBranches ==
    called =>
        /\ result.via \notin {"trial3", "fallback"}
        /\ Len(parts_of_input) >= 3 => result.via \in {"compound", "trial2"}
        /\ result.via \in {"trial1", "fallback", "no_match"} => Len(parts_of_input) = 2

\* four or more segments, where a three-segment artist would leave an artwork
C10_Witness ==
    /\ called
    /\ Len(parts_of_input) >= 4
    /\ IsIndicator(parts_of_input[4])
    /\ result.via = "trial2"

-----------------------------------------------------------------------------
(* Properties of a run of the program, checked under SpecDeck. *)

\* C4: no exception of a run leaves the program uncaught.
C4_NoUncaughtException == pc # "uncaught"

\* the loop at line 164 has been left
LoopEnded == pc \in {"return", "except", "done"} /\ genanki_installed /\ folder_exists

Occurrences(s, x) == Cardinality({i \in 1..Len(s) : s[i] = x})

NonEmptyParse(file) ==
    LET r == parse_filename(file)
    IN  r.present /\ r.artist # <<>> /\ r.artwork # <<>>

\* C5: the loop body runs for the image files in order, each exactly once
\* whatever parse_filename returned for the others; each run adds one to
\* exactly one of the two counters; after the loop their sum is the number
\* of image files.
C5_EveryFileCounted ==
    /\ [](/\ parsed_count + failed_count = Len(processed)
          /\ Len(processed) <= Len(image_files)
          /\ processed = SubSeq(image_files, 1, Len(processed))
          /\ LoopEnded =>
                /\ parsed_count + failed_count = Len(image_files)
                /\ \A i \in 1..Len(image_files) :
                       Occurrences(processed, image_files[i]) = 1)
    /\ [][processed' # processed =>
            /\ Len(processed) < Len(image_files)
            /\ processed' = Append(processed, image_files[Len(processed) + 1])
            /\ \/ parsed_count' = parsed_count + 1 /\ failed_count' = failed_count
               \/ parsed_count' = parsed_count /\ failed_count' = failed_count + 1]_vars

\* a failed parse followed by a successful one in the same run
C5_Witness ==
    /\ LoopEnded
    /\ \E i, j \in 1..Len(processed) :
          i < j /\ ~NonEmptyParse(processed[i]) /\ NonEmptyParse(processed[j])

\* C6: the deck holds as many notes as parsed_count, and its notes are those
\* of the files processed so far for which parse_filename returned a
\* non-empty artist and a non-empty artwork, one each.
C6_OneNotePerParsedFile ==
    /\ Len(deck) = parsed_count
    /\ [i \in 1..Len(deck) |-> deck[i].image] = SelectSeq(processed, NonEmptyParse)
    /\ \A i \in 1..Len(deck) :
          /\ deck[i].artist = parse_filename(deck[i].image).artist
          /\ deck[i].artwork = parse_filename(deck[i].image).artwork

\* a finished loop with a note in the deck and a file left out whose parse
\* came back with an empty artwork
C6_Witness ==
    /\ LoopEnded
    /\ Len(deck) >= 1
    /\ \E i \in 1..Len(processed) :
          /\ parse_filename(processed[i]).present
          /\ parse_filename(processed[i]).artwork = <<>>
          /\ \A k \in 1..Len(deck) : deck[k].image # processed[i]

====
